---- MODULE Spec2Model ----
(***************************************************************************)
(* Model of the subscription engine (crates/core/src/subscription/         *)
(* subscription.rs) and of the metered executor (crates/core/src/host/     *)
(* wasmer/wasmer_module.rs).                                               *)
(*                                                                         *)
(* Two specifications share the module:                                    *)
(*   Spec      the subscription engine: one QuerySet with its client,      *)
(*             initial evaluation and one eval_incr per committed          *)
(*             transaction;                                                *)
(*   HostSpec  one WasmerInstance running reducer calls under a budget.    *)
(***************************************************************************)
EXTENDS Integers, Sequences, FiniteSets, TLC

VARIABLES
    \* ---- subscription engine ----
    db,         \* committed tables: table_id -> set of rows (ProductValue)
    pre,        \* the committed tables before the last transaction
    queries,    \* the QuerySet: a set of SupportedQuery
    update,     \* the DatabaseUpdate of the last committed transaction
    output,     \* Result<DatabaseUpdate> of eval / eval_incr, in flight to the client
    client,     \* the subscriber's view: set of <<table_id, row_pk bytes>>
    lastCall,   \* "none" | "eval" | "eval_incr" | "delivered" | "failed"
    \* ---- module host ----
    pc,         \* "idle" | "running": position of call_tx_function
    meter,      \* the metering globals: [points, exhausted]
    budget,     \* the budget (in points) of the current / last call
    burned,     \* points the guest was charged for in the current / last call
    buffers,    \* the environment's live buffers: handle -> bytes
    iters,      \* number of live iterators registered in the environment
    energy,     \* EnergyStats of the last finished call
    callResult, \* call_result of the last finished call
    calls,      \* number of finished reducer calls
    returned,   \* the handle the guest returned in the last call, with the live
                \* buffers when it returned and when finish_reducer was entered
    steps,      \* the steps of the current / last call on the instance, in order
    \* ---- subscribers of a Subscription ----
    subscribers, \* Vec<ClientConnectionSender>
    lastOp,      \* the last call on the Subscription and its argument
    \* ---- QuerySet::get_all ----
    catalog,     \* the tables of the database: table_id -> [table_type, table_access]
    auth,        \* AuthCtx: [owner, caller]
    allResult,   \* Result<QuerySet> of the last get_all
    \* ---- WasmerModule::instantiate ----
    ipc,         \* "start" | "preinit" | "done": position of instantiate
    preinits,    \* func_names.preinits
    hasSetup,    \* whether the module exports __setup__ as () -> u32
    nextPre,     \* index of the next preinit to invoke
    callLog,     \* the guest functions invoked so far, each with its outcome
                 \* (trapped, the handle returned, whether it named a live buffer)
    initBuffers, \* the environment's live buffers during instantiation
    initResult,  \* Result<WasmerInstance, InitializationError>
    \* ---- IncrementalJoin::new ----
    jexpr,       \* the QueryExpr of the semijoin
    jupdates,    \* the table updates of the transaction
    jresult      \* anyhow::Result<Option<IncrementalJoin>> of the call

subVars  == <<db, pre, queries, update, output, client, lastCall>>
hostVars == <<pc, meter, budget, burned, buffers, iters, energy, callResult, calls, returned,
             steps>>
memberVars == <<subscribers, lastOp>>
catalogVars == <<catalog, auth, allResult>>
instVars == <<ipc, preinits, hasSetup, nextPre, callLog, initBuffers, initResult>>
joinVars == <<jexpr, jupdates, jresult>>
vars     == <<subVars, hostVars, memberVars, catalogVars, instVars, joinVars>>

\* what the actions of one component leave alone
exceptSub     == <<hostVars, memberVars, catalogVars, instVars, joinVars>>
exceptHost    == <<subVars, memberVars, catalogVars, instVars, joinVars>>
exceptMember  == <<subVars, hostVars, catalogVars, instVars, joinVars>>
exceptCatalog == <<subVars, hostVars, memberVars, instVars, joinVars>>
exceptInst    == <<subVars, hostVars, memberVars, catalogVars, joinVars>>
exceptJoin    == <<subVars, hostVars, memberVars, catalogVars, instVars>>

(***************************************************************************)
(* Bounds of the model.                                                    *)
(***************************************************************************)
MaxTxOps   == 2   \* row operations in one transaction
MaxQueries == 2   \* queries in the QuerySet
MaxBudget  == 3   \* largest reducer budget, in points
MaxCost    == 2   \* largest cost charged by one metered block
MaxCalls   == 2   \* reducer calls on one instance
MaxClients == 4   \* client ids
MaxTables  == 3   \* tables in the catalog
MaxPreinits == 3  \* preinit exports of a module
MaxBuffers == 4   \* live buffers of one environment
MaxIters == 1     \* live iterators of one environment
MaxUpdates == 2   \* table updates handed to IncrementalJoin::new

\* the rows the tables may hold: rows of A are <<id, v>>, rows of B are
\* <<a_id, w>>
Ids  == {1, 2}    \* values of A.id and of B.a_id
Vals == {0, 1}    \* values of the second column

RowsOf(t) == {<<i, v>> : i \in Ids, v \in Vals}

(***************************************************************************)
(* Data model.                                                             *)
(***************************************************************************)
OpDelete == 0
OpInsert == 1

\* Option
None == [some |-> FALSE]
Some(x) == [some |-> TRUE, val |-> x]

TableIds == {"A", "B"}

Rows == UNION {RowsOf(t) : t \in TableIds}

\* A.id is the primary key of the join: no two committed A rows share it
ValidDb(d) == \A r1, r2 \in d["A"] : r1[1] = r2[1] => r1 = r2

Dbs == {d \in [TableIds -> SUBSET Rows] : ValidDb(d) /\ \A t \in TableIds : d[t] \subseteq RowsOf(t)}

\* RelationalDB::pk_for_row: the content hash of the row (no collisions)
RelationalDB_pk_for_row(data) == [data_key |-> <<"hash", data>>]

\* PrimaryKey::to_bytes and DataKey::decode
to_bytes(pk) == <<"bytes", pk.data_key>>
DataKey_decode(bytes) == bytes[2]

\* pk_for_row: the id the row carries, else the key derived from its bytes
pk_for_row(row) ==
    IF row.id.some THEN [data_key |-> row.id.val]
    ELSE RelationalDB_pk_for_row(row.data)

\* a committed row as the datastore's iterator yields it
StoredRow(data) == [id |-> Some(RelationalDB_pk_for_row(data).data_key), data |-> data]

RowLess(r, s) == r[1] < s[1] \/ (r[1] = s[1] /\ r[2] < s[2])

RECURSIVE SortedRows(_)
SortedRows(S) ==
    IF S = {} THEN <<>>
    ELSE LET m == CHOOSE r \in S : \A s \in S \ {r} : RowLess(r, s)
         IN <<m>> \o SortedRows(S \ {m})

\* iteration over a committed table
TableScan(d, t) ==
    LET s == SortedRows(d[t]) IN [i \in 1..Len(s) |-> StoredRow(s[i])]

RECURSIVE Perms(_)
Perms(S) ==
    IF S = {} THEN {<<>>}
    ELSE UNION {{<<x>> \o p : p \in Perms(S \ {x})} : x \in S}

RECURSIVE Concat(_)
Concat(ss) == IF ss = <<>> THEN <<>> ELSE Head(ss) \o Concat(Tail(ss))

RemoveAt(s, pos) == SubSeq(s, 1, pos - 1) \o SubSeq(s, pos + 1, Len(s))

(***************************************************************************)
(* Query expressions.  SourceExpr is a DbTable or a MemTable; the          *)
(* operators are Select (column = value) and IndexJoin.                    *)
(***************************************************************************)
DbTable(t) == [tag |-> "DbTable", table_id |-> t]

MemTableSrc(t, hasOp, data) ==
    [tag |-> "MemTable", table_id |-> t, has_op_type |-> hasOp, data |-> data]

\* SourceExpr::get_db_table
get_db_table(source) == IF source.tag = "DbTable" THEN Some(source) ELSE None

QueryExprNew(t) == [source |-> DbTable(t), query |-> <<>>]

Select(c, v) == [op |-> "Select", col |-> c, val |-> v]

IndexJoin(probe) ==
    [op |-> "IndexJoin", probe_side |-> probe, probe_col |-> 1, index_col |-> 1]

ScanA   == [kind |-> "Scan", expr |-> QueryExprNew("A")]
ScanAv  == [kind |-> "Scan", expr |-> [source |-> DbTable("A"), query |-> <<Select(2, 1)>>]]
ScanB   == [kind |-> "Scan", expr |-> QueryExprNew("B")]
SemiAB  == [kind |-> "Semijoin",
            expr |-> [source |-> DbTable("A"), query |-> <<IndexJoin(QueryExprNew("B"))>>]]

AllQueries == {ScanA, ScanAv, ScanB, SemiAB}

\* queries whose evaluation raises an error: a Scan of a virtual table, a
\* semijoin whose probe side is a virtual table, a Scan that cannot be executed
ScanMem    == [kind |-> "Scan", expr |-> [source |-> MemTableSrc("A", FALSE, <<>>), query |-> <<>>]]
SemiMemRhs == [kind |-> "Semijoin",
               expr |-> [source |-> DbTable("A"),
                         query  |-> <<IndexJoin([source |-> MemTableSrc("B", FALSE, <<>>),
                                                 query  |-> <<>>])>>]]
SemiMemLhs == [kind |-> "Semijoin",
               expr |-> [source |-> MemTableSrc("A", FALSE, <<>>),
                         query  |-> <<IndexJoin(QueryExprNew("B"))>>]]
ScanBad    == [kind |-> "Scan", expr |-> [source |-> DbTable("A"), query |-> <<Select(0, 1)>>]]

BadQueries == {ScanMem, SemiMemRhs, SemiMemLhs, ScanBad}

\* the QuerySets that hold a query of BadQueries
ErrQuerySets ==
    {qs \in SUBSET (AllQueries \cup BadQueries) :
        Cardinality(qs) \in 1..MaxQueries /\ qs \cap BadQueries # {}}

QuerySets == {qs \in SUBSET AllQueries : Cardinality(qs) \in 1..MaxQueries}

(***************************************************************************)
(* run_query: the executor.  A Select keeps the rows whose column has the  *)
(* value; an IndexJoin yields one row of the source side for each matching *)
(* row of the probe side.                                                  *)
(***************************************************************************)
RECURSIVE run_query(_, _)
RECURSIVE ApplyOps(_, _, _)

SourceRows(d, source) ==
    IF source.tag = "DbTable" THEN TableScan(d, source.table_id) ELSE source.data

ApplyOps(d, ops, rows) ==
    IF ops = <<>> THEN rows
    ELSE LET o == Head(ops) IN
         IF o.op = "Select"
         THEN ApplyOps(d, Tail(ops), SelectSeq(rows, LAMBDA r : r.data[o.col] = o.val))
         ELSE LET probe == run_query(d, o.probe_side).data
                  matches(p) == SelectSeq(rows, LAMBDA r : r.data[o.index_col] = p.data[o.probe_col])
              IN ApplyOps(d, Tail(ops), Concat([i \in 1..Len(probe) |-> matches(probe[i])]))

run_query(d, expr) ==
    [head |-> [table_id    |-> expr.source.table_id,
               has_op_type |-> expr.source.tag = "MemTable" /\ expr.source.has_op_type],
     data |-> ApplyOps(d, expr.query, SourceRows(d, expr.source))]

\* run_query returns an error for an expression it cannot execute: here, one
\* that selects on a column no row has (columns are counted from 1)
RECURSIVE run_query_fails(_)
run_query_fails(expr) ==
    \E i \in DOMAIN expr.query :
        \/ expr.query[i].op = "Select" /\ expr.query[i].col < 1
        \/ expr.query[i].op = "IndexJoin" /\ run_query_fails(expr.query[i].probe_side)

\* query::to_mem_table: the source becomes a virtual table of the ops, each
\* row carrying its op_type in an appended __op_type__ column
to_mem_table(expr, tableUpdate) ==
    [expr EXCEPT !.source =
        MemTableSrc(expr.source.table_id, TRUE,
            [i \in 1..Len(tableUpdate.ops) |->
                [id   |-> Some(DataKey_decode(tableUpdate.ops[i].row_pk)),
                 data |-> Append(tableUpdate.ops[i].row, tableUpdate.ops[i].op_type)]])]

(***************************************************************************)
(* Ops.  An Op keeps the PrimaryKey; a TableOp stores its bytes.           *)
(***************************************************************************)
MkOp(t, pk, row) == [op_type |-> t, row_pk |-> pk, row |-> row]

\* impl From<Op> for TableOp
OpIntoTableOp(op) == MkOp(op.op_type, to_bytes(op.row_pk), op.row)

\* the TableOp a transaction records for a row
TxOp(t, row) == MkOp(t, to_bytes(RelationalDB_pk_for_row(row)), row)

\* Header::find_pos_by_name(OP_TYPE_FIELD_NAME): the marker is the last column
find_pos_op_type(head, row) == IF head.has_op_type THEN Some(Len(row.data)) ELSE None

\* an Op whose key is derived from the bytes of the row that still holds the
\* marker
OpOfMarkedRowKeyFirst(row, pos) ==
    MkOp(row.data[pos], RelationalDB_pk_for_row(row.data), RemoveAt(row.data, pos))

\* the Op of one result row of a virtual table: the marker is removed from the
\* row before its key is computed
OpOfMarkedRow(row, pos) ==
    LET stripped == [id |-> row.id, data |-> RemoveAt(row.data, pos)]
    IN MkOp(row.data[pos], pk_for_row(stripped), stripped.data)

\* eval_incremental: "panic" when a non-empty result has no marker column
eval_incremental(d, expr) ==
    LET result == run_query(d, expr) IN
    IF result.data = <<>> THEN <<>>
    ELSE LET pos == find_pos_op_type(result.head, result.data[1]) IN
         IF ~pos.some THEN "panic"
         ELSE [i \in 1..Len(result.data) |-> OpOfMarkedRow(result.data[i], pos.val)]

(***************************************************************************)
(* IncrementalJoin.                                                        *)
(***************************************************************************)
EmptyTableUpdate(t) == [table_id |-> t, ops |-> <<>>]

\* JoinSide::inserts / JoinSide::deletes
JoinSideInserts(side) ==
    [table_id |-> side.table_id, ops |-> SelectSeq(side.ops, LAMBDA op : op.op_type = OpInsert)]

JoinSideDeletes(side) ==
    [table_id |-> side.table_id, ops |-> SelectSeq(side.ops, LAMBDA op : op.op_type = OpDelete)]

\* the probe side of the first IndexJoin operator whose probe side is physical
RECURSIVE FindRhs(_)
FindRhs(ops) ==
    IF ops = <<>> THEN None
    ELSE IF Head(ops).op = "IndexJoin" /\ get_db_table(Head(ops).probe_side.source).some
         THEN get_db_table(Head(ops).probe_side.source)
         ELSE FindRhs(Tail(ops))

\* a partition in which the ops of a later update replace those of an earlier
\* update on the same table
RECURSIVE PartitionReplace(_, _, _)
PartitionReplace(updates, lhs, rhs) ==
    IF updates = <<>> THEN [lhs |-> lhs, rhs |-> rhs]
    ELSE LET u == Head(updates) IN
         IF u.table_id = lhs.table_id
         THEN PartitionReplace(Tail(updates), [lhs EXCEPT !.ops = u.ops], rhs)
         ELSE IF u.table_id = rhs.table_id
         THEN PartitionReplace(Tail(updates), lhs, [rhs EXCEPT !.ops = u.ops])
         ELSE PartitionReplace(Tail(updates), lhs, rhs)

\* the partition of the transaction's table updates into the two sides
RECURSIVE Partition(_, _, _)
Partition(updates, lhs, rhs) ==
    IF updates = <<>> THEN [lhs |-> lhs, rhs |-> rhs]
    ELSE LET u == Head(updates) IN
         IF u.table_id = lhs.table_id
         THEN Partition(Tail(updates), [lhs EXCEPT !.ops = @ \o u.ops], rhs)
         ELSE IF u.table_id = rhs.table_id
         THEN Partition(Tail(updates), lhs, [rhs EXCEPT !.ops = @ \o u.ops])
         ELSE Partition(Tail(updates), lhs, rhs)

\* a construction that looks at the expression only when there are updates
IncrementalJoinNewUpdatesFirst(expr, updates) ==
    LET l == get_db_table(expr.source)
        r == FindRhs(expr.query)
    IN IF updates = <<>> THEN [err |-> FALSE, plan |-> None]
       ELSE IF ~l.some THEN [err |-> TRUE, msg |-> "expression without physical source table"]
       ELSE IF ~r.some THEN [err |-> TRUE, msg |-> "rhs table not found"]
       ELSE LET p == Partition(updates, EmptyTableUpdate(l.val.table_id),
                                        EmptyTableUpdate(r.val.table_id))
            IN IF p.lhs.ops = <<>> /\ p.rhs.ops = <<>>
               THEN [err |-> FALSE, plan |-> None]
               ELSE [err |-> FALSE, plan |-> Some([expr |-> expr, lhs |-> p.lhs, rhs |-> p.rhs])]

\* IncrementalJoin::new: Err, Ok(None) or Ok(Some(plan))
IncrementalJoinNew(expr, updates) ==
    LET l == get_db_table(expr.source)
        r == FindRhs(expr.query)
    IN IF ~l.some THEN [err |-> TRUE, msg |-> "expression without physical source table"]
       ELSE IF ~r.some THEN [err |-> TRUE, msg |-> "rhs table not found"]
       ELSE LET p == Partition(updates, EmptyTableUpdate(l.val.table_id),
                                        EmptyTableUpdate(r.val.table_id))
            IN IF p.lhs.ops = <<>> /\ p.rhs.ops = <<>>
               THEN [err |-> FALSE, plan |-> None]
               ELSE [err |-> FALSE, plan |-> Some([expr |-> expr, lhs |-> p.lhs, rhs |-> p.rhs])]

\* IncrementalJoin::to_mem_table_rhs: the probe side of the first IndexJoin
\* becomes a virtual table of the ops (without a marker column)
RECURSIVE ReplaceFirstProbe(_, _)
ReplaceFirstProbe(ops, virt) ==
    IF ops = <<>> THEN <<>>
    ELSE IF Head(ops).op = "IndexJoin"
         THEN <<[Head(ops) EXCEPT !.probe_side.source = virt]>> \o Tail(ops)
         ELSE <<Head(ops)>> \o ReplaceFirstProbe(Tail(ops), virt)

as_rel_value(op) == [id |-> Some(DataKey_decode(op.row_pk)), data |-> op.row]

to_mem_table_rhs(plan, updates) ==
    [plan.expr EXCEPT !.query =
        ReplaceFirstProbe(plan.expr.query,
            MemTableSrc(plan.rhs.table_id, FALSE,
                [i \in 1..Len(updates.ops) |-> as_rel_value(updates.ops[i])]))]

\* the rows of a join against a virtual probe side, as ops of one type
ProbeOps(d, rhsVirt, t) ==
    LET data == run_query(d, rhsVirt).data
    IN [i \in 1..Len(data) |-> MkOp(t, pk_for_row(data[i]), data[i].data)]

\* HashMap<PrimaryKey, Op>: collect and extend; a later op replaces an earlier
\* one with the same key
MapExtend(m, ops) ==
    LET keys == {ops[i].row_pk : i \in DOMAIN ops}
        last(k) == CHOOSE i \in DOMAIN ops :
                      /\ ops[i].row_pk = k
                      /\ \A j \in DOMAIN ops : ops[j].row_pk = k => j <= i
    IN [k \in (DOMAIN m) \cup keys |-> IF k \in keys THEN ops[last(k)] ELSE m[k]]

EmptyMap == [k \in {} |-> k]

\* A join B+ computed from the deletes of B
JoinInsertsBFromDeletes(d, plan) ==
    ProbeOps(d, to_mem_table_rhs(plan, JoinSideDeletes(plan.rhs)), OpInsert)

\* a delete set without the A- join B- branch
JoinDeletesCNone(d, plan) == <<>>

\* the five sub-joins
JoinInsertsA(d, plan) == eval_incremental(d, to_mem_table(plan.expr, JoinSideInserts(plan.lhs)))
JoinInsertsB(d, plan) == ProbeOps(d, to_mem_table_rhs(plan, JoinSideInserts(plan.rhs)), OpInsert)
JoinDeletesA(d, plan) == eval_incremental(d, to_mem_table(plan.expr, JoinSideDeletes(plan.lhs)))
JoinDeletesB(d, plan) == ProbeOps(d, to_mem_table_rhs(plan, JoinSideDeletes(plan.rhs)), OpDelete)
JoinDeletesC(d, plan) ==
    eval_incremental(d, to_mem_table(to_mem_table_rhs(plan, JoinSideDeletes(plan.rhs)),
                                     JoinSideDeletes(plan.lhs)))

JoinInserts(d, plan) == MapExtend(MapExtend(EmptyMap, JoinInsertsA(d, plan)), JoinInsertsB(d, plan))

JoinDeletes(d, plan) ==
    MapExtend(MapExtend(MapExtend(EmptyMap, JoinDeletesA(d, plan)), JoinDeletesB(d, plan)),
              JoinDeletesC(d, plan))

SymmetricDifference(ins, dels) ==
    {k \in DOMAIN ins : k \notin DOMAIN dels} \cup {k \in DOMAIN dels : k \notin DOMAIN ins}

Retain(m, keep) == [k \in (DOMAIN m) \cap keep |-> m[k]]

\* HashMap::into_values: the values in an arbitrary order
IntoValues(m) == {[i \in 1..Len(p) |-> m[p[i]]] : p \in Perms(DOMAIN m)}

\* a chain with the inserts first
ChainInsertsDeletes(dels, ins) == {is \o ds : ds \in IntoValues(dels), is \in IntoValues(ins)}

\* the order in which the retained deletes and inserts are chained
ChainDeletesInserts(dels, ins) == {ds \o is : ds \in IntoValues(dels), is \in IntoValues(ins)}

\* IncrementalJoin::eval: the set of op sequences it may return
IncrementalJoinEval(d, plan) ==
    LET ins  == JoinInserts(d, plan)
        dels == JoinDeletes(d, plan)
        sym  == SymmetricDifference(ins, dels)
    IN ChainDeletesInserts(Retain(dels, sym), Retain(ins, sym))

(***************************************************************************)
(* QuerySet: a BTreeSet<SupportedQuery>, iterated in the derived order of  *)
(* SupportedQuery (kind, then expr).                                       *)
(***************************************************************************)
KindRank(kind) == IF kind = "Scan" THEN 0 ELSE 1

SourceRank(source) ==
    (IF source.tag = "MemTable" THEN 0 ELSE 2) + (IF source.table_id = "A" THEN 0 ELSE 1)

\* IndexJoin before Select; Selects by column, then by value
OperatorRank(o) == IF o.op = "IndexJoin" THEN 0 ELSE 1 + 2 * o.col + o.val

RECURSIVE OperatorsLess(_, _)
RECURSIVE ExprLess(_, _)

\* two operators of one rank are two IndexJoins, ordered by their probe sides
OperatorLess(o1, o2) ==
    \/ OperatorRank(o1) < OperatorRank(o2)
    \/ /\ OperatorRank(o1) = OperatorRank(o2)
       /\ o1.op = "IndexJoin"
       /\ ExprLess(o1.probe_side, o2.probe_side)

OperatorsLess(o1, o2) ==
    IF o2 = <<>> THEN FALSE
    ELSE IF o1 = <<>> THEN TRUE
    ELSE IF OperatorLess(Head(o1), Head(o2)) THEN TRUE
    ELSE IF OperatorLess(Head(o2), Head(o1)) THEN FALSE
    ELSE OperatorsLess(Tail(o1), Tail(o2))

ExprLess(e1, e2) ==
    \/ SourceRank(e1.source) < SourceRank(e2.source)
    \/ SourceRank(e1.source) = SourceRank(e2.source) /\ OperatorsLess(e1.query, e2.query)

QueryLess(q1, q2) ==
    \/ KindRank(q1.kind) < KindRank(q2.kind)
    \/ KindRank(q1.kind) = KindRank(q2.kind) /\ ExprLess(q1.expr, q2.expr)

\* the queries in iteration order
QueryOrder(qs) ==
    CHOOSE p \in Perms(qs) : \A i, j \in DOMAIN p : i < j => QueryLess(p[i], p[j])

(***************************************************************************)
(* QuerySet::eval_incr and QuerySet::eval.                                 *)
(***************************************************************************)
Ok(acc)  == [err |-> FALSE, table_ops |-> acc.table_ops, seen |-> acc.seen]
Err(msg) == [err |-> TRUE, msg |-> msg]

EmptyAcc == [err |-> FALSE, table_ops |-> [t \in {} |-> <<>>], seen |-> {}]

\* table_ops.entry(t).or_insert_with(|| (name, vec![]))
EntryOrInsert(table_ops, t) ==
    [u \in (DOMAIN table_ops) \cup {t} |-> IF u \in DOMAIN table_ops THEN table_ops[u] ELSE <<>>]

\* seen.insert that lets every op through
SeenInsertAlways(seen, key) == TRUE

\* seen.insert((table_id, row_pk)): whether the op is new
SeenInsert(seen, key) == key \notin seen

\* a push in which the op of a later query replaces the op already emitted
\* for its key
RECURSIVE PushLastWins(_, _, _)
PushLastWins(acc, t, ops) ==
    IF ops = <<>> THEN acc
    ELSE LET op  == Head(ops)
             key == <<t, op.row_pk>>
             old == SelectSeq(acc.table_ops[t], LAMBDA o : o.row_pk # to_bytes(op.row_pk))
         IN PushLastWins([acc EXCEPT !.seen = @ \cup {key},
                                     !.table_ops[t] = Append(old, OpIntoTableOp(op))],
                         t, Tail(ops))

\* push the ops that `seen` lets through, in order
RECURSIVE PushUnseen(_, _, _)
PushUnseen(acc, t, ops) ==
    IF ops = <<>> THEN acc
    ELSE LET op  == Head(ops)
             key == <<t, op.row_pk>>
         IN IF SeenInsert(acc.seen, key)
            THEN PushUnseen([acc EXCEPT !.seen = @ \cup {key},
                                        !.table_ops[t] = Append(@, OpIntoTableOp(op))],
                            t, Tail(ops))
            ELSE PushUnseen(acc, t, Tail(ops))

\* the Scan arm: every table update of the source table, in turn
RECURSIVE ScanTables(_, _, _, _)
ScanTables(d, expr, tables, acc) ==
    IF tables = <<>> THEN acc
    ELSE LET table == Head(tables)
             a     == [acc EXCEPT !.table_ops = EntryOrInsert(@, table.table_id)]
             plan  == to_mem_table(expr, table)
         IN IF run_query_fails(plan) THEN Err("query execution failed")
            ELSE ScanTables(d, expr, Tail(tables),
                            PushUnseen(a, table.table_id, eval_incremental(d, plan)))

\* a Scan arm that takes the table updates of every table
EvalIncrScanAllTables(d, expr, upd, acc) ==
    LET source == get_db_table(expr.source) IN
    IF ~source.some THEN {Err("expression without physical source table")}
    ELSE {ScanTables(d, expr, upd, acc)}

EvalIncrScan(d, expr, upd, acc) ==
    LET source == get_db_table(expr.source) IN
    IF ~source.some THEN {Err("expression without physical source table")}
    ELSE {ScanTables(d, expr,
                     SelectSeq(upd, LAMBDA t : t.table_id = source.val.table_id), acc)}

\* the Semijoin arm
EvalIncrSemijoin(d, expr, upd, acc) ==
    LET new == IncrementalJoinNew(expr, upd) IN
    IF new.err THEN {Err(new.msg)}
    ELSE IF ~new.plan.some THEN {acc}
    ELSE IF run_query_fails(new.plan.val.expr) THEN {Err("query execution failed")}
    ELSE LET plan     == new.plan.val
             table_id == plan.lhs.table_id
             a        == [acc EXCEPT !.table_ops = EntryOrInsert(@, table_id)]
         IN {PushUnseen(a, table_id, ops) : ops \in IncrementalJoinEval(d, plan)}

EvalIncrQuery(d, q, upd, acc) ==
    IF q.kind = "Scan" THEN EvalIncrScan(d, q.expr, upd, acc)
    ELSE EvalIncrSemijoin(d, q.expr, upd, acc)

RECURSIVE EvalIncrFold(_, _, _, _)
\* a loop that drops the error of a query and goes on to the next query
EvalIncrFoldPastErrors(d, qseq, upd, acc) ==
    IF qseq = <<>> THEN {acc}
    ELSE UNION {EvalIncrFold(d, Tail(qseq), upd, IF a.err THEN acc ELSE a) :
                    a \in EvalIncrQuery(d, Head(qseq), upd, acc)}

EvalIncrFold(d, qseq, upd, acc) ==
    IF qseq = <<>> THEN {acc}
    ELSE UNION {IF a.err THEN {a} ELSE EvalIncrFold(d, Tail(qseq), upd, a) :
                    a \in EvalIncrQuery(d, Head(qseq), upd, acc)}

\* a drain that keeps the buckets without ops
DrainKeepEmpty(acc) ==
    IF acc.err THEN {acc}
    ELSE {[err |-> FALSE,
           tables |-> [i \in 1..Len(p) |-> [table_id |-> p[i], ops |-> acc.table_ops[p[i]]]]] :
             p \in Perms(DOMAIN acc.table_ops)}

\* table_ops.into_iter() without the empty buckets: the HashMap yields the
\* tables in an arbitrary order
DrainTableOps(acc) ==
    IF acc.err THEN {acc}
    ELSE {[err |-> FALSE,
           tables |-> [i \in 1..Len(p) |-> [table_id |-> p[i], ops |-> acc.table_ops[p[i]]]]] :
             p \in Perms({t \in DOMAIN acc.table_ops : acc.table_ops[t] # <<>>})}

\* QuerySet::eval_incr: the results the call may return
eval_incr(qs, d, upd) ==
    UNION {DrainTableOps(acc) : acc \in EvalIncrFold(d, QueryOrder(qs), upd, EmptyAcc)}

\* row ops of the initial evaluation marked as deletes
EvalRowOpsAsDeletes(rows) ==
    [i \in 1..Len(rows) |-> MkOp(OpDelete, pk_for_row(rows[i]), rows[i].data)]

\* the ops of the rows of one query of the initial evaluation
EvalRowOps(rows) ==
    [i \in 1..Len(rows) |-> MkOp(OpInsert, pk_for_row(rows[i]), rows[i].data)]

RECURSIVE EvalFold(_, _, _)
EvalFold(d, qseq, acc) ==
    IF qseq = <<>> THEN acc
    ELSE LET expr == Head(qseq).expr
             t    == get_db_table(expr.source)
         IN IF ~t.some THEN EvalFold(d, Tail(qseq), acc)
            ELSE IF run_query_fails(expr) THEN Err("query execution failed")
            ELSE EvalFold(d, Tail(qseq),
                    PushUnseen([acc EXCEPT !.table_ops = EntryOrInsert(@, t.val.table_id)],
                               t.val.table_id, EvalRowOps(run_query(d, expr).data)))

\* QuerySet::eval
eval(qs, d) == DrainTableOps(EvalFold(d, QueryOrder(qs), EmptyAcc))

(***************************************************************************)
(* Transactions and the subscriber.                                        *)
(***************************************************************************)
\* the row changes a transaction may commit on `d`: deletes of stored rows
\* and inserts of rows not stored, as <<table_id, op_type, row>>
Changes(d) ==
    {ch \in TableIds \X {OpDelete, OpInsert} \X Rows :
        ch[3] \in RowsOf(ch[1]) /\ ((ch[2] = OpDelete) <=> (ch[3] \in d[ch[1]]))}

ApplyChanges(d, chs) ==
    [t \in TableIds |->
        (d[t] \ {ch[3] : ch \in {c \in chs : c[1] = t /\ c[2] = OpDelete}})
            \cup {ch[3] : ch \in {c \in chs : c[1] = t /\ c[2] = OpInsert}}]

Transactions(d) ==
    {chs \in SUBSET Changes(d) : Cardinality(chs) <= MaxTxOps /\ ValidDb(ApplyChanges(d, chs))}

\* the DatabaseUpdates that may describe the transaction: one table update per
\* table written, its ops in the order the transaction made them
TableUpdatesOf(chs, t) ==
    LET mine == {c \in chs : c[1] = t} IN
    IF mine = {} THEN {<<>>}
    ELSE {<<[table_id |-> t, ops |-> [i \in 1..Len(p) |-> TxOp(p[i][2], p[i][3])]]>> :
            p \in Perms(mine)}

DatabaseUpdatesOf(chs) ==
    {ua \o ub : ua \in TableUpdatesOf(chs, "A"), ub \in TableUpdatesOf(chs, "B")}

\* the subscriber applies the ops of a DatabaseUpdate in order
RECURSIVE ApplyOps2Client(_, _, _)
ApplyOps2Client(view, t, ops) ==
    IF ops = <<>> THEN view
    ELSE LET key == <<t, Head(ops).row_pk>> IN
         ApplyOps2Client(IF Head(ops).op_type = OpInsert THEN view \cup {key} ELSE view \ {key},
                         t, Tail(ops))

RECURSIVE ApplyTables(_, _)
ApplyTables(view, tables) ==
    IF tables = <<>> THEN view
    ELSE ApplyTables(ApplyOps2Client(view, Head(tables).table_id, Head(tables).ops), Tail(tables))

ClientApply(view, out) == IF out.err THEN view ELSE ApplyTables(view, out.tables)

NoUpdate == [err |-> FALSE, tables |-> <<>>]

EmptyDb == [t \in TableIds |-> {}]

(***************************************************************************)
(* The subscription engine as a state machine.                             *)
(***************************************************************************)
SubInit ==
    /\ db \in Dbs
    /\ pre = db
    /\ queries \in QuerySets
    /\ update = <<>>
    /\ output = NoUpdate
    /\ client = {}
    /\ lastCall = "none"

\* a subscription whose QuerySet holds table scans only
ScanInit ==
    /\ db \in Dbs
    /\ pre = db
    /\ queries \in {qs \in QuerySets : qs # {} /\ \A q \in qs : q.kind = "Scan"}
    /\ update = <<>>
    /\ output = NoUpdate
    /\ client = {}
    /\ lastCall = "none"

\* a subscription whose QuerySet holds a query that raises an error
ErrInit ==
    /\ db \in Dbs
    /\ pre = db
    /\ queries \in ErrQuerySets
    /\ update = <<>>
    /\ output = NoUpdate
    /\ client = {}
    /\ lastCall = "none"

\* a subscription to the semijoin alone
JoinInit ==
    /\ db \in Dbs
    /\ pre = db
    /\ queries = {SemiAB}
    /\ update = <<>>
    /\ output = NoUpdate
    /\ client = {}
    /\ lastCall = "none"

\* a subscription whose QuerySet reads both tables
BothTablesInit ==
    /\ db \in Dbs
    /\ pre = db
    /\ queries \in {qs \in QuerySets : {q.expr.source.table_id : q \in qs} = TableIds}
    /\ update = <<>>
    /\ output = NoUpdate
    /\ client = {}
    /\ lastCall = "none"

SubQuiet ==
    /\ db = EmptyDb
    /\ pre = EmptyDb
    /\ queries = {}
    /\ update = <<>>
    /\ output = NoUpdate
    /\ client = {}
    /\ lastCall = "none"

\* the subscription is established: QuerySet::eval runs and its result is
\* sent to the subscriber
EvalInitial ==
    /\ lastCall = "none"
    /\ \E out \in eval(queries, db) : output' = out
    /\ lastCall' = "eval"
    /\ UNCHANGED <<db, pre, queries, update, client>>
    /\ UNCHANGED exceptSub

\* a transaction commits; QuerySet::eval_incr runs on its DatabaseUpdate and
\* its result is sent to the subscriber
Commit ==
    /\ lastCall = "delivered"
    /\ \E chs \in Transactions(db) :
        \E upd \in DatabaseUpdatesOf(chs) :
            \E out \in eval_incr(queries, ApplyChanges(db, chs), upd) :
                /\ db' = ApplyChanges(db, chs)
                /\ pre' = db
                /\ update' = upd
                /\ output' = out
    /\ lastCall' = "eval_incr"
    /\ UNCHANGED <<queries, client>>
    /\ UNCHANGED exceptSub

\* the subscriber receives the DatabaseUpdate in flight and applies it; the
\* handler's update and result are dropped.  An error is reported instead, and
\* the subscription is evaluated no further.
Deliver ==
    /\ lastCall \in {"eval", "eval_incr"}
    /\ client' = ClientApply(client, output)
    /\ pre' = db
    /\ update' = <<>>
    /\ output' = NoUpdate
    /\ lastCall' = IF output.err THEN "failed" ELSE "delivered"
    /\ UNCHANGED <<db, queries>>
    /\ UNCHANGED exceptSub

SubNext == EvalInitial \/ Commit \/ Deliver

(***************************************************************************)
(* The metered executor: WasmerInstance::call_reducer.                     *)
(***************************************************************************)
\* BufferIdx::INVALID, the all-ones u32, written as the 32-bit integer it is
BufferIdxInvalid == -1

\* wasmer_metering::set_remaining_points: both metering globals are written
set_remaining_points(points) == [points |-> points, exhausted |-> FALSE]

\* the check the metering middleware puts before each block of cost `cost`:
\* a block the points cannot pay for sets the exhausted global and traps,
\* leaving the points as they were
MeterCharge(m, cost) ==
    IF m.points < cost THEN [m EXCEPT !.exhausted = TRUE]
    ELSE [m EXCEPT !.points = @ - cost]

\* get_remaining_points that reads the points global whatever the exhausted one
get_remaining_points_raw(m) == m.points

\* get_remaining_points: MeteringPoints::Remaining(x) => x, Exhausted => 0
get_remaining_points(m) == IF m.exhausted THEN 0 ELSE m.points

\* EnergyQuanta::from_points
from_points(points) == points

\* EnergyStats that charge the whole budget
EnergyStatsUsedAll(b, remaining) ==
    [used |-> from_points(b), remaining |-> from_points(remaining)]

\* the EnergyStats of a call
EnergyStatsOf(b, remaining) ==
    [used |-> from_points(b) - from_points(remaining), remaining |-> from_points(remaining)]

\* the buffer table: insert takes the first free slot, take removes
FreeSlot(bufs) ==
    CHOOSE h \in 0..Cardinality(DOMAIN bufs) :
        h \notin DOMAIN bufs /\ \A g \in 0..(h - 1) : g \in DOMAIN bufs

insert_buffer(bufs, data) ==
    [h \in (DOMAIN bufs) \cup {FreeSlot(bufs)} |-> IF h \in DOMAIN bufs THEN bufs[h] ELSE data]

take_buffer(bufs, h) == IF h \in DOMAIN bufs THEN Some(bufs[h]) ELSE None

RemoveBuffer(bufs, h) == [g \in (DOMAIN bufs) \ {h} |-> bufs[g]]

NoBuffers == [h \in {} |-> ""]

\* the three argument buffers of call_reducer, in order
ArgBuffers(bufs) ==
    insert_buffer(insert_buffer(insert_buffer(bufs, "identity"), "address"), "args")

\* a call that starts on the points the last call left
MeterKept(m, b) == m

\* the meter at the start of a call
MeterAtCall(m, b) == set_remaining_points(b)

\* a host that takes the handle 0 for success
ResultOfReturnZeroOk(bufs, ret) ==
    IF ret = 0 THEN [tag |-> "ok", msg |-> ""]
    ELSE IF take_buffer(bufs, ret).some
         THEN [tag |-> "reducer_err", msg |-> take_buffer(bufs, ret).val]
         ELSE [tag |-> "trap", msg |-> "invalid buffer handle"]

\* the buffers take_buffer leaves: it is called for every handle but INVALID
BuffersAfterReturn(bufs, ret) ==
    IF ret = BufferIdxInvalid THEN bufs ELSE RemoveBuffer(bufs, ret)

\* the call_result for the handle the guest returned
ResultOfReturn(bufs, ret) ==
    IF ret = BufferIdxInvalid THEN [tag |-> "ok", msg |-> ""]
    ELSE IF take_buffer(bufs, ret).some
         THEN [tag |-> "reducer_err", msg |-> take_buffer(bufs, ret).val]
         ELSE [tag |-> "trap", msg |-> "invalid buffer handle"]

Trap(msg) == [tag |-> "trap", msg |-> msg]

\* an end of call_tx_function that leaves out finish_reducer after a trap
FinishCallNotOnTrap(m, result) ==
    /\ callResult' = result
    /\ IF result.tag = "trap"
       THEN /\ UNCHANGED <<buffers, iters>>
            /\ steps' = steps \o <<"get_remaining_points">>
       ELSE /\ buffers' = NoBuffers
            /\ iters' = 0
            /\ steps' = steps \o <<"finish_reducer", "get_remaining_points">>
    /\ energy' = EnergyStatsOf(budget, get_remaining_points(m))
    /\ calls' = calls + 1
    /\ pc' = "idle"

\* the end of call_tx_function: finish_reducer clears the environment, the
\* remaining points are read and the ExecuteResult is built
FinishCall(m, result) ==
    /\ callResult' = result
    /\ buffers' = NoBuffers
    /\ iters' = 0
    /\ energy' = EnergyStatsOf(budget, get_remaining_points(m))
    /\ calls' = calls + 1
    /\ pc' = "idle"
    /\ steps' = steps \o <<"finish_reducer", "get_remaining_points">>

HostInit ==
    /\ pc = "idle"
    /\ meter \in {set_remaining_points(p) : p \in 0..MaxBudget}
    /\ budget = 0
    /\ burned = 0
    /\ buffers = NoBuffers
    /\ iters = 0
    /\ energy = EnergyStatsOf(0, 0)
    /\ callResult = [tag |-> "none", msg |-> ""]
    /\ calls = 0
    /\ returned = None
    /\ steps = <<>>

HostQuiet ==
    /\ pc = "idle"
    /\ meter = set_remaining_points(0)
    /\ budget = 0
    /\ burned = 0
    /\ buffers = NoBuffers
    /\ iters = 0
    /\ energy = EnergyStatsOf(0, 0)
    /\ callResult = [tag |-> "none", msg |-> ""]
    /\ calls = 0
    /\ returned = None
    /\ steps = <<>>

\* call_tx_function up to the call into the guest
CallBegin ==
    /\ pc = "idle"
    /\ calls < MaxCalls
    /\ \E b \in 0..MaxBudget :
        /\ budget' = b
        /\ meter' = MeterAtCall(meter, b)
    /\ buffers' = ArgBuffers(buffers)
    /\ burned' = 0
    /\ pc' = "running"
    /\ returned' = None
    /\ steps' = <<"set_remaining_points", "insert_buffer", "insert_buffer", "insert_buffer",
                  "start_reducer", "call">>
    /\ UNCHANGED <<iters, energy, callResult, calls>>
    /\ UNCHANGED exceptHost

\* the guest enters a metered block: it is charged, or the energy is exhausted
\* and the guest traps
GuestBurn ==
    /\ pc = "running"
    /\ \E cost \in 1..MaxCost :
        LET m == MeterCharge(meter, cost) IN
        /\ meter' = m
        /\ IF m.exhausted
           THEN /\ FinishCall(m, Trap("out of energy"))
                /\ UNCHANGED burned
           ELSE /\ burned' = burned + cost
                /\ UNCHANGED <<pc, buffers, iters, energy, callResult, calls, steps>>
    /\ UNCHANGED <<budget, returned>>
    /\ UNCHANGED exceptHost

\* the guest runs: a reducer in call_tx_function, or the describer
InGuest == pc \in {"running", "describing"}

\* the guest calls _buffer_alloc: a new buffer is live
GuestBufferAlloc ==
    /\ InGuest
    /\ Cardinality(DOMAIN buffers) < MaxBuffers
    /\ buffers' = insert_buffer(buffers, "error message")
    /\ UNCHANGED <<pc, meter, budget, burned, iters, energy, callResult, calls, returned, steps>>
    /\ UNCHANGED exceptHost

\* the guest calls _buffer_consume: it takes a live buffer
GuestBufferConsume ==
    /\ InGuest
    /\ \E h \in DOMAIN buffers : buffers' = RemoveBuffer(buffers, h)
    /\ UNCHANGED <<pc, meter, budget, burned, iters, energy, callResult, calls, returned, steps>>
    /\ UNCHANGED exceptHost

\* the guest calls _iter_start: an iterator is registered in the environment
GuestIterStart ==
    /\ InGuest
    /\ iters < MaxIters
    /\ iters' = iters + 1
    /\ UNCHANGED <<pc, meter, budget, burned, buffers, energy, callResult, calls, returned, steps>>
    /\ UNCHANGED exceptHost

\* the guest returns a handle
GuestReturn ==
    /\ pc = "running"
    /\ \E ret \in {BufferIdxInvalid} \cup 0..MaxBuffers :
        /\ FinishCall(meter, ResultOfReturn(buffers, ret))
        /\ returned' = Some([ret |-> ret, atReturn |-> buffers,
                             atFinish |-> BuffersAfterReturn(buffers, ret)])
    /\ UNCHANGED <<meter, budget, burned>>
    /\ UNCHANGED exceptHost

\* the guest traps for a reason other than energy
GuestTrap ==
    /\ pc = "running"
    /\ FinishCall(meter, Trap("guest trap"))
    /\ UNCHANGED <<meter, budget, burned, returned>>
    /\ UNCHANGED exceptHost

\* the reducer call with the points it burns and the buffers it leaves
HostNext ==
    \/ CallBegin \/ GuestBurn \/ GuestBufferAlloc \/ GuestBufferConsume
    \/ GuestReturn \/ GuestTrap

\* the reducer call with the buffers and iterators it leaves; the points the
\* guest burns are not followed
CallStateNext ==
    \/ CallBegin \/ GuestBufferAlloc \/ GuestBufferConsume \/ GuestIterStart
    \/ GuestReturn \/ GuestTrap

(***************************************************************************)
(* The describer: WasmerInstance::extract_descriptions and call_describer. *)
(* The points the describer burns are not followed; running out of them is *)
(* one of the traps.                                                       *)
(***************************************************************************)
DescribeError(kind) == [tag |-> "describe_err", msg |-> kind]

\* extract_descriptions up to the call into the guest; a describer that is
\* not of type () -> u32 ends the call with DescribeError::Signature
DescribeBegin ==
    /\ pc = "idle"
    /\ calls < MaxCalls
    /\ \E typed \in BOOLEAN :
        IF typed
        THEN /\ pc' = "describing"
             /\ steps' = <<"call">>
             /\ UNCHANGED <<callResult, calls>>
        ELSE /\ pc' = "idle"
             /\ steps' = <<>>
             /\ callResult' = DescribeError("Signature")
             /\ calls' = calls + 1
    /\ returned' = None
    /\ UNCHANGED <<meter, budget, burned, buffers, iters, energy>>
    /\ UNCHANGED exceptHost

\* the describer returns a handle: the bytes of a live buffer are the
\* description and finish_reducer clears the environment; any other handle
\* ends the call with DescribeError::BadBuffer
DescribeReturn ==
    /\ pc = "describing"
    /\ \E ret \in {BufferIdxInvalid} \cup 0..MaxBuffers :
        /\ IF take_buffer(buffers, ret).some
           THEN /\ callResult' = [tag |-> "described", msg |-> take_buffer(buffers, ret).val]
                /\ buffers' = NoBuffers
                /\ iters' = 0
                /\ steps' = steps \o <<"finish_reducer">>
           ELSE /\ callResult' = DescribeError("BadBuffer")
                /\ UNCHANGED <<buffers, iters, steps>>
        /\ returned' = Some([ret |-> ret, atReturn |-> buffers, atFinish |-> buffers])
    /\ pc' = "idle"
    /\ calls' = calls + 1
    /\ UNCHANGED <<meter, budget, burned, energy>>
    /\ UNCHANGED exceptHost

\* the describer traps: the call ends with DescribeError::RuntimeError
DescribeTrap ==
    /\ pc = "describing"
    /\ callResult' = DescribeError("RuntimeError")
    /\ pc' = "idle"
    /\ calls' = calls + 1
    /\ UNCHANGED <<meter, budget, burned, buffers, iters, energy, returned, steps>>
    /\ UNCHANGED exceptHost

DescribeNext ==
    \/ DescribeBegin \/ GuestBufferAlloc \/ GuestBufferConsume \/ GuestIterStart
    \/ DescribeReturn \/ DescribeTrap

(***************************************************************************)
(* Subscription: a QuerySet with the subscribers interested in it.         *)
(***************************************************************************)
ClientIds == 1..MaxClients

\* a ClientConnectionSender: the client's id and the connection it stands for
Senders == [id : ClientIds, conn : {1, 2}]

\* Subscription::new
SubscriptionNew(subscriber) == <<subscriber>>

\* add_subscriber that pushes whatever the list holds
add_subscriber_always(subs, sender) == Append(subs, sender)

\* Subscription::add_subscriber
add_subscriber(subs, sender) ==
    IF ~(\E i \in DOMAIN subs : subs[i].id = sender.id) THEN Append(subs, sender) ELSE subs

\* a removal that drops the last element whatever the index
swap_remove_last(subs, i) == SubSeq(subs, 1, Len(subs) - 1)

\* Vec::swap_remove: the last element takes the place of the removed one
swap_remove(subs, i) ==
    [j \in 1..(Len(subs) - 1) |-> IF j = i THEN subs[Len(subs)] ELSE subs[j]]

\* Iterator::position
position(subs, client_id) ==
    IF \E i \in DOMAIN subs : subs[i].id = client_id
    THEN Some(CHOOSE i \in DOMAIN subs :
                /\ subs[i].id = client_id
                /\ \A j \in DOMAIN subs : subs[j].id = client_id => i <= j)
    ELSE None

\* Subscription::remove_subscriber: the list it leaves and what it returns
remove_subscriber(subs, client_id) ==
    LET i == position(subs, client_id) IN
    IF ~i.some THEN [subscribers |-> subs, removed |-> None]
    ELSE [subscribers |-> swap_remove(subs, i.val), removed |-> Some(subs[i.val])]

MemberInit ==
    /\ \E s \in Senders : subscribers = SubscriptionNew(s)
    /\ lastOp = [op |-> "new"]

MemberQuiet ==
    /\ subscribers = <<>>
    /\ lastOp = [op |-> "none"]

AddSubscriber ==
    /\ \E sender \in Senders :
        /\ subscribers' = add_subscriber(subscribers, sender)
        /\ lastOp' = [op |-> "add", sender |-> sender]
    /\ UNCHANGED exceptMember

RemoveSubscriber ==
    /\ \E client_id \in ClientIds :
        /\ subscribers' = remove_subscriber(subscribers, client_id).subscribers
        /\ lastOp' = [op |-> "remove", client_id |-> client_id,
                      removed |-> remove_subscriber(subscribers, client_id).removed]
    /\ UNCHANGED exceptMember

MemberNext == AddSubscriber \/ RemoveSubscriber

(***************************************************************************)
(* QuerySet::get_all over the catalog of the database.                     *)
(***************************************************************************)
CatalogIds == 1..MaxTables

TableSchemas == [table_type : {"User", "System"}, table_access : {"Public", "Private"}]

Identities == {"owner", "other"}

\* get_all that leaves out the access check
get_all_any_access(tables, a, fails) ==
    IF fails THEN [tag |-> "err"]
    ELSE [tag |-> "ok",
          queries |-> {[kind |-> "Scan", expr |-> QueryExprNew(t)] :
                          t \in {u \in DOMAIN tables : tables[u].table_type = "User"}}]

\* QuerySet::get_all; `fails` is get_all_tables returning an error
get_all(tables, a, fails) ==
    IF fails THEN [tag |-> "err"]
    ELSE LET same_owner == a.owner = a.caller
             kept == {t \in DOMAIN tables :
                         /\ tables[t].table_type = "User"
                         /\ (same_owner \/ tables[t].table_access = "Public")}
         IN [tag |-> "ok", queries |-> {[kind |-> "Scan", expr |-> QueryExprNew(t)] : t \in kept}]

CatalogInit ==
    /\ catalog \in [CatalogIds -> TableSchemas]
    /\ auth \in [owner : Identities, caller : Identities]
    /\ allResult = [tag |-> "none"]

CatalogQuiet ==
    /\ catalog = [t \in {} |-> t]
    /\ auth = [owner |-> "owner", caller |-> "owner"]
    /\ allResult = [tag |-> "none"]

GetAll ==
    /\ \E fails \in BOOLEAN : allResult' = get_all(catalog, auth, fails)
    /\ UNCHANGED <<catalog, auth>>
    /\ UNCHANGED exceptCatalog

CatalogNext == GetAll

(***************************************************************************)
(* WasmerModule::instantiate.  Guest functions are named by numbers: the   *)
(* preinit exports by 1, 2, ..., __setup__ by SetupDunder.                 *)
(***************************************************************************)
SetupDunder == 0

PreinitNames == 1..MaxPreinits

\* func_names.preinits: the preinit exports of the module, in some order
PreinitLists == UNION {Perms(S) : S \in SUBSET PreinitNames}

NoResult == [tag |-> "none"]
OkInstance == [tag |-> "ok"]
InitializationError(kind, func, msg) == [tag |-> "err", kind |-> kind, func |-> func, msg |-> msg]

\* what the guest may do to the buffers during one call: nothing, or allocate
\* a buffer
GuestBuffers(bufs) == {bufs, insert_buffer(bufs, "setup failed")}

\* a loop that goes on to the next preinit whatever the call returned
AfterPreinitAlwaysNext(names, i, trapped) ==
    [ipc |-> "preinit", nextPre |-> i + 1, result |-> NoResult]

\* the preinit loop after the call of names[i]: a trap ends instantiate
AfterPreinit(names, i, trapped) ==
    IF trapped
    THEN [ipc |-> "done", nextPre |-> i, result |-> InitializationError("RuntimeError", names[i], "")]
    ELSE [ipc |-> "preinit", nextPre |-> i + 1, result |-> NoResult]

\* a __setup__ whose returned handle is never looked at
SetupResultIgnored(bufs, outcome) ==
    IF outcome.trapped THEN InitializationError("RuntimeError", SetupDunder, "")
    ELSE OkInstance

\* the result of instantiate after __setup__ trapped or returned a handle
SetupResult(bufs, outcome) ==
    IF outcome.trapped THEN InitializationError("RuntimeError", SetupDunder, "")
    ELSE IF outcome.ret = BufferIdxInvalid THEN OkInstance
    ELSE IF take_buffer(bufs, outcome.ret).some
         THEN InitializationError("Setup", SetupDunder, take_buffer(bufs, outcome.ret).val)
         ELSE InitializationError("Setup", SetupDunder, "unknown error")

\* the outcomes of a guest call that returns a u32
SetupOutcomes ==
    {[trapped |-> TRUE, ret |-> BufferIdxInvalid]}
        \cup {[trapped |-> FALSE, ret |-> r] : r \in {BufferIdxInvalid, 0, 1}}

InstInit ==
    /\ ipc = "start"
    /\ preinits \in PreinitLists
    /\ hasSetup \in BOOLEAN
    /\ nextPre = 1
    /\ callLog = <<>>
    /\ initBuffers = NoBuffers
    /\ initResult = NoResult

InstQuiet ==
    /\ ipc = "done"
    /\ preinits = <<>>
    /\ hasSetup = FALSE
    /\ nextPre = 1
    /\ callLog = <<>>
    /\ initBuffers = NoBuffers
    /\ initResult = NoResult

\* Instance::new: the module is linked against the imports, or
\* InitializationError::Instantiation
Instantiate ==
    /\ ipc = "start"
    /\ \E linked \in BOOLEAN :
        IF linked THEN ipc' = "preinit" /\ initResult' = NoResult
        ELSE ipc' = "done" /\ initResult' = InitializationError("Instantiation", SetupDunder, "")
    /\ UNCHANGED <<preinits, hasSetup, nextPre, callLog, initBuffers>>
    /\ UNCHANGED exceptInst

\* one turn of the preinit loop
CallPreinit ==
    /\ ipc = "preinit"
    /\ nextPre <= Len(preinits)
    /\ \E trapped \in BOOLEAN : \E bufs \in GuestBuffers(initBuffers) :
        LET after == AfterPreinit(preinits, nextPre, trapped) IN
        /\ callLog' = Append(callLog, [func |-> preinits[nextPre], trapped |-> trapped,
                                       ret |-> BufferIdxInvalid, live |-> FALSE])
        /\ initBuffers' = bufs
        /\ ipc' = after.ipc
        /\ nextPre' = after.nextPre
        /\ initResult' = after.result
    /\ UNCHANGED <<preinits, hasSetup>>
    /\ UNCHANGED exceptInst

\* after the loop: __setup__ is called when the module exports it, and
\* instantiate returns
CallSetup ==
    /\ ipc = "preinit"
    /\ nextPre > Len(preinits)
    /\ IF ~hasSetup
       THEN /\ initResult' = OkInstance
            /\ UNCHANGED <<callLog, initBuffers>>
       ELSE \E outcome \in SetupOutcomes : \E bufs \in GuestBuffers(initBuffers) :
            /\ callLog' = Append(callLog, [func |-> SetupDunder, trapped |-> outcome.trapped,
                                           ret |-> outcome.ret,
                                           live |-> outcome.ret \in DOMAIN bufs])
            /\ initResult' = SetupResult(bufs, outcome)
            /\ initBuffers' = IF outcome.trapped THEN bufs ELSE RemoveBuffer(bufs, outcome.ret)
    /\ ipc' = "done"
    /\ UNCHANGED <<preinits, hasSetup, nextPre>>
    /\ UNCHANGED exceptInst

InstNext == Instantiate \/ CallPreinit \/ CallSetup

(***************************************************************************)
(* IncrementalJoin::new on its own: a semijoin expression and the table    *)
(* updates of a transaction, which may write tables the join does not      *)
(* read and may hold several updates of one table.                         *)
(***************************************************************************)
\* the self-join A JOIN A: one table is both sides
SemiAAExpr == [source |-> DbTable("A"), query |-> <<IndexJoin(QueryExprNew("A"))>>]

JoinExprs == {SemiAB.expr, SemiAAExpr}

UpdatedTables == {"A", "B", "C"}

UpdateOpSeqs ==
    {<<>>, <<TxOp(OpInsert, <<1, 0>>)>>, <<TxOp(OpDelete, <<1, 0>>), TxOp(OpInsert, <<1, 1>>)>>}

TableUpdates == {[table_id |-> t, ops |-> ops] : t \in UpdatedTables, ops \in UpdateOpSeqs}

UpdateSeqs == UNION {[1..n -> TableUpdates] : n \in 0..MaxUpdates}

JoinNewInit ==
    /\ jexpr \in JoinExprs
    /\ jupdates \in UpdateSeqs
    /\ jresult = NoResult

JoinNewQuiet ==
    /\ jexpr = SemiAB.expr
    /\ jupdates = <<>>
    /\ jresult = NoResult

\* IncrementalJoin::new(expr, updates)
JoinNew ==
    /\ jresult = NoResult
    /\ jresult' = [tag |-> "returned", val |-> IncrementalJoinNew(jexpr, jupdates)]
    /\ UNCHANGED <<jexpr, jupdates>>
    /\ UNCHANGED exceptJoin

JoinNewNext == JoinNew

(***************************************************************************)
(* Specifications.                                                         *)
(***************************************************************************)
Init == SubInit /\ HostQuiet /\ MemberQuiet /\ CatalogQuiet /\ InstQuiet /\ JoinNewQuiet

Next == SubNext

Spec == Init /\ [][Next]_vars

HostSpecInit == SubQuiet /\ HostInit /\ MemberQuiet /\ CatalogQuiet /\ InstQuiet /\ JoinNewQuiet

HostSpec == HostSpecInit /\ [][HostNext]_vars

CallStateSpec == HostSpecInit /\ [][CallStateNext]_vars

MemberSpecInit == SubQuiet /\ HostQuiet /\ MemberInit /\ CatalogQuiet /\ InstQuiet /\ JoinNewQuiet

MemberSpec == MemberSpecInit /\ [][MemberNext]_vars

ErrSpecInit == ErrInit /\ HostQuiet /\ MemberQuiet /\ CatalogQuiet /\ InstQuiet /\ JoinNewQuiet

ErrSpec == ErrSpecInit /\ [][SubNext]_vars

JoinSpecInit == JoinInit /\ HostQuiet /\ MemberQuiet /\ CatalogQuiet /\ InstQuiet /\ JoinNewQuiet

JoinSpec == JoinSpecInit /\ [][SubNext]_vars

JoinNewSpecInit ==
    SubQuiet /\ HostQuiet /\ MemberQuiet /\ CatalogQuiet /\ InstQuiet /\ JoinNewInit

JoinNewSpec == JoinNewSpecInit /\ [][JoinNewNext]_vars

BothTablesSpecInit ==
    BothTablesInit /\ HostQuiet /\ MemberQuiet /\ CatalogQuiet /\ InstQuiet /\ JoinNewQuiet

DescribeSpec == HostSpecInit /\ [][DescribeNext]_vars

\* the subscription up to the result of its first transaction: every QuerySet,
\* database state and update of the bounds is an input of eval and eval_incr
FirstTxNext == EvalInitial \/ (Deliver /\ lastCall = "eval") \/ Commit

FirstTxSpec == Init /\ [][FirstTxNext]_vars

\* the same steps for the QuerySets that read both tables
BothTablesSpec == BothTablesSpecInit /\ [][FirstTxNext]_vars

ScanSpecInit == ScanInit /\ HostQuiet /\ MemberQuiet /\ CatalogQuiet /\ InstQuiet /\ JoinNewQuiet

\* and for the QuerySets of table scans
ScanSpec == ScanSpecInit /\ [][FirstTxNext]_vars

CatalogSpecInit == SubQuiet /\ HostQuiet /\ MemberQuiet /\ CatalogInit /\ InstQuiet /\ JoinNewQuiet

CatalogSpec == CatalogSpecInit /\ [][CatalogNext]_vars

InstSpecInit == SubQuiet /\ HostQuiet /\ MemberQuiet /\ CatalogQuiet /\ InstInit /\ JoinNewQuiet

InstSpec == InstSpecInit /\ [][InstNext]_vars

(***************************************************************************)
(* Vocabulary of the properties.                                           *)
(***************************************************************************)
\* the ops of a DatabaseUpdate, each with the table of its bucket
OutOps(out) ==
    Concat([i \in 1..Len(out.tables) |->
        [j \in 1..Len(out.tables[i].ops) |->
            [table_id |-> out.tables[i].table_id, op |-> out.tables[i].ops[j]]]])

OutKey(e) == <<e.table_id, e.op.row_pk>>

\* the key of a stored row, as ops carry it
RowKey(t, row) == <<t, to_bytes(RelationalDB_pk_for_row(row))>>

\* the ops of a DatabaseUpdate for one key
OpsFor(out, k) == SelectSeq(OutOps(out), LAMBDA e : OutKey(e) = k)

OpTypesFor(out, k) == [i \in 1..Len(OpsFor(out, k)) |-> OpsFor(out, k)[i].op.op_type]

\* the keys of the rows in the result of one query on a database state
ResultKeys(q, d) ==
    LET rows == run_query(d, q.expr).data
    IN {<<q.expr.source.table_id, to_bytes(pk_for_row(rows[i]))>> : i \in DOMAIN rows}

\* the rows in the result of at least one query of the set
ExpectedView(qs, d) == UNION {ResultKeys(q, d) : q \in qs}

\* the B rows that join with the A row a
Matching(d, a) == {b \in d["B"] : b[1] = a[1]}

\* the ops of the last transaction on one table
UpdateOps(upd, t) ==
    Concat([i \in 1..Len(upd) |-> IF upd[i].table_id = t THEN upd[i].ops ELSE <<>>])

Incremental == lastCall = "eval_incr" /\ ~output.err

\* the plan IncrementalJoin::new builds for the semijoin on the last update
SemiPlan == IncrementalJoinNew(SemiAB.expr, update).plan

KeysOfOps(ops) == {ops[i].row_pk : i \in DOMAIN ops}

(***************************************************************************)
(* Properties of the subscription engine (specification Spec).             *)
(***************************************************************************)
\* C1: after the client has applied the ops of eval and of every eval_incr
\* since, it holds exactly the rows that are in the result of at least one
\* query of the set on the current database state.
C1_SubscriptionSync ==
    lastCall = "delivered" => client = ExpectedView(queries, db)

\* C2: for a QuerySet of one query, a row has an op in the result of
\* eval_incr exactly when its membership in the query's result differs between
\* the state before and the state after the transaction: one Delete when it
\* left the result, one Insert when it entered it.
C2_DeltaIsMembershipChange ==
    (Incremental /\ Cardinality(queries) = 1) =>
        \A q \in queries : \A r \in Rows :
            LET k      == RowKey(q.expr.source.table_id, r)
                before == k \in ResultKeys(q, pre)
                after  == k \in ResultKeys(q, db)
            IN OpTypesFor(output, k) =
                  IF before /\ ~after THEN <<OpDelete>>
                  ELSE IF ~before /\ after THEN <<OpInsert>>
                  ELSE <<>>

\* C3: the DatabaseUpdate returned by one eval or eval_incr call holds no
\* (table_id, row_pk) pair in more than one op, whatever the op types.
C3_NoKeyTwice ==
    ~output.err =>
        LET ops == OutOps(output)
        IN \A i, j \in DOMAIN ops : OutKey(ops[i]) = OutKey(ops[j]) => i = j

\* two queries of the set each yield an op for one key on this update, and the
\* result holds that key
C3_Witness ==
    /\ Incremental
    /\ \E q1, q2 \in queries :
        /\ q1 # q2
        /\ \E o1 \in eval_incr({q1}, db, update) : \E o2 \in eval_incr({q2}, db, update) :
            \E i \in DOMAIN OutOps(o1) : \E j \in DOMAIN OutOps(o2) :
                /\ OutKey(OutOps(o1)[i]) = OutKey(OutOps(o2)[j])
                /\ Len(OpsFor(output, OutKey(OutOps(o1)[i]))) = 1

\* C4: in every DatabaseTableUpdate returned by eval_incr all Delete ops
\* precede all Insert ops.
C4_DeletesBeforeInserts ==
    Incremental =>
        \A t \in DOMAIN output.tables :
            \A i, j \in DOMAIN output.tables[t].ops :
                (/\ output.tables[t].ops[i].op_type = OpInsert
                 /\ output.tables[t].ops[j].op_type = OpDelete) => j < i

\* the transaction only inserts rows of B
OnlyInsertsB ==
    /\ UpdateOps(update, "A") = <<>>
    /\ UpdateOps(update, "B") # <<>>
    /\ \A i \in DOMAIN UpdateOps(update, "B") : UpdateOps(update, "B")[i].op_type = OpInsert

\* C8: with the semijoin A JOIN B ON A.id = B.a_id in the set, when the
\* transaction only inserts B rows and a committed A row had no matching B row
\* before it and has one after it, the result of eval_incr holds exactly one op
\* for that A row, an Insert, and no Delete.
C8_InsertOnRhs ==
    (Incremental /\ SemiAB \in queries /\ OnlyInsertsB) =>
        \A a \in db["A"] :
            (Matching(pre, a) = {} /\ Matching(db, a) # {}) =>
                OpTypesFor(output, RowKey("A", a)) = <<OpInsert>>

C8_Witness ==
    /\ Incremental /\ SemiAB \in queries /\ OnlyInsertsB
    /\ \E a \in db["A"] :
        /\ Matching(pre, a) = {} /\ Cardinality(Matching(db, a)) = 2
        /\ OpTypesFor(output, RowKey("A", a)) = <<OpInsert>>

\* the A rows the transaction deleted together with every B row that matched
\* them
DeletedWithMatches ==
    {a \in pre["A"] \ db["A"] : Matching(pre, a) # {} /\ Matching(db, a) = {}}

\* C9: with the semijoin in the set, when a transaction deletes an A row and
\* every B row that matched it, the result of eval_incr holds exactly one op
\* for the A row, a Delete, and among the sub-joins of the delete set only
\* A- join B- yields it.
C9_DeleteOnBothSides ==
    (Incremental /\ SemiAB \in queries) =>
        \A a \in DeletedWithMatches :
            LET pk == RelationalDB_pk_for_row(a) IN
            /\ OpTypesFor(output, RowKey("A", a)) = <<OpDelete>>
            /\ pk \in KeysOfOps(JoinDeletesC(db, SemiPlan.val))
            /\ pk \notin KeysOfOps(JoinDeletesA(db, SemiPlan.val))
            /\ pk \notin KeysOfOps(JoinDeletesB(db, SemiPlan.val))
            /\ pk \notin DOMAIN JoinInserts(db, SemiPlan.val)

C9_Witness ==
    /\ Incremental /\ queries = {SemiAB}
    /\ \E a \in DeletedWithMatches :
        OpTypesFor(output, RowKey("A", a)) = <<OpDelete>>

\* C10: for a QuerySet holding only the unfiltered Scan of a table T, the
\* result of eval_incr is, when the update holds ops on T, one
\* DatabaseTableUpdate for T with exactly the update's ops on T, and nothing
\* else; it is empty when the update holds no op on T.
C10_ScanPassthrough ==
    \A t \in TableIds :
        (lastCall = "eval_incr" /\ queries = {[kind |-> "Scan", expr |-> QueryExprNew(t)]}) =>
            /\ ~output.err
            /\ output.tables = SelectSeq(update, LAMBDA u : u.table_id = t)

\* the update holds an Insert before a Delete on T, and both come back in
\* that order
C10_Witness ==
    /\ lastCall = "eval_incr" /\ queries = {ScanA}
    /\ Len(update) = 1
    /\ Len(update[1].ops) = 2
    /\ update[1].ops[1].op_type = OpInsert
    /\ update[1].ops[2].op_type = OpDelete
    /\ Len(output.tables) = 1
    /\ output.tables[1] = update[1]

(***************************************************************************)
(* Properties of the metered executor (specification HostSpec).            *)
(***************************************************************************)
Finished == pc = "idle" /\ calls > 0

\* C5: the EnergyStats of every finished call satisfy
\* 0 <= remaining <= budget and used + remaining = budget.
C5_EnergyWithinBudget ==
    Finished =>
        /\ 0 <= energy.remaining
        /\ energy.remaining <= budget
        /\ energy.used + energy.remaining = budget

\* a call that trapped after it was charged a part of its budget
C5_Witness ==
    /\ Finished
    /\ callResult = Trap("guest trap")
    /\ 0 < energy.remaining /\ energy.remaining < budget

\* C6: a call whose energy was exhausted ends in a trap, and it reports
\* remaining = 0 and used = budget.
C6_ExhaustionReportsZero ==
    (Finished /\ meter.exhausted) =>
        /\ callResult.tag = "trap"
        /\ energy.remaining = 0
        /\ energy.used = budget

\* the exhausting block left points in the meter
C6_Witness ==
    /\ Finished /\ meter.exhausted
    /\ meter.points > 0
    /\ energy.remaining = 0 /\ energy.used = budget

\* C7: a call that trapped reports an error with used <= budget; the next
\* call on the instance starts with the meter at exactly its own budget, so
\* that what it reports is its budget less what it was charged itself.
C7_TrapLeavesInstanceUsable ==
    /\ (Finished /\ callResult.tag = "trap") => energy.used <= budget
    /\ pc = "running" => (~meter.exhausted /\ meter.points = budget - burned)
    /\ (Finished /\ ~meter.exhausted) =>
            (energy.used = burned /\ energy.remaining = budget - burned)
    /\ (Finished /\ meter.exhausted) =>
            (energy.used = budget /\ burned <= budget)

\* a second call runs, on its own budget, after a call that exhausted its energy
C7_Witness ==
    /\ pc = "running"
    /\ callResult = Trap("out of energy")
    /\ budget > energy.used
    /\ meter = set_remaining_points(budget)

(***************************************************************************)
(* Further properties of the subscription engine (specification Spec).     *)
(***************************************************************************)
Evaluated == lastCall \in {"eval", "eval_incr"} /\ ~output.err

\* what the last call returns for the query q alone
AloneResult(q) ==
    IF lastCall = "eval" THEN CHOOSE o \in eval({q}, db) : TRUE
    ELSE CHOOSE o \in eval_incr({q}, db, update) : TRUE

\* the ops of the last call for each query of the set alone
AloneResults == {[q |-> q, ops |-> OutOps(AloneResult(q))] : q \in queries}

\* the ops of a sequence of ops for one key
OpsAt(ops, k) == SelectSeq(ops, LAMBDA e : OutKey(e) = k)

\* the queries that, alone, produce an op for the key
Producers(alone, k) == {p \in alone : OpsAt(p.ops, k) # <<>>}

\* the producer that comes first in the derived order of SupportedQuery
FirstProducer(ps) == CHOOSE p \in ps : \A p2 \in ps \ {p} : QueryLess(p.q, p2.q)

\* the keys some sequence of ops of the set holds
KeysOf(opss) == UNION {{OutKey(ops[i]) : i \in DOMAIN ops} : ops \in opss}

\* C11: when queries of the set produce an op for one (table_id, row_pk) in
\* one eval or eval_incr call, the op emitted is the op of the query that comes
\* first in the set's iteration order, and the ops of the later queries for the
\* pair are suppressed.
C11_FirstQueryWins ==
    Evaluated =>
        LET alone == AloneResults
            out   == OutOps(output)
        IN \A k \in KeysOf({out} \cup {p.ops : p \in alone}) :
            LET ps == Producers(alone, k)
            IN IF ps = {} THEN OpsAt(out, k) = <<>>
               ELSE OpsAt(out, k) = OpsAt(FirstProducer(ps).ops, k)

\* two queries produce ops of different types for one key, and the op of the
\* first is the one emitted
C11_Witness ==
    /\ Incremental
    /\ LET alone == AloneResults
       IN \E k \in KeysOf({p.ops : p \in alone}) : \E p2 \in Producers(alone, k) :
           LET first == FirstProducer(Producers(alone, k))
           IN /\ p2 # first
              /\ OpsAt(p2.ops, k)[1].op.op_type # OpsAt(first.ops, k)[1].op.op_type
              /\ OpsFor(output, k) = OpsAt(first.ops, k)

\* the updates without ops: no table update, or table updates whose ops are
\* empty
EmptyUpdates ==
    {<<>>} \cup {<<EmptyTableUpdate(t)>> : t \in TableIds}
           \cup {<<EmptyTableUpdate(t1), EmptyTableUpdate(t2)>> : t1, t2 \in TableIds}

\* C12: eval_incr on an update without ops returns a DatabaseUpdate with no
\* tables, on every call, whatever the QuerySet and the database state: so it
\* is wherever a transaction may commit, for each update without ops, and so
\* it was on every call made with one.
C12_EmptyUpdateEmptyResult ==
    /\ lastCall = "delivered" =>
          \A upd \in EmptyUpdates : eval_incr(queries, db, upd) = {NoUpdate}
    /\ (lastCall = "eval_incr" /\ update \in EmptyUpdates) => output = NoUpdate

\* an empty transaction commits on a subscription whose client holds rows,
\* where a table update without ops also returns nothing
C12_Witness ==
    /\ lastCall = "eval_incr" /\ update = <<>> /\ output = NoUpdate
    /\ client # {} /\ SemiAB \in queries /\ Cardinality(queries) = 2
    /\ eval_incr(queries, db, <<EmptyTableUpdate("A"), EmptyTableUpdate("B")>>) = {NoUpdate}

\* the tables of the buckets of a DatabaseUpdate, in order
BucketOrder(out) == [i \in 1..Len(out.tables) |-> out.tables[i].table_id]

\* whether the query gives its source table a bucket on the last update
Writes(q) ==
    IF q.kind = "Scan" THEN \E i \in DOMAIN update : update[i].table_id = q.expr.source.table_id
    ELSE IncrementalJoinNew(q.expr, update).plan.some

\* the queries that give the table t a bucket
Writers(t) == {q \in queries : q.expr.source.table_id = t /\ Writes(q)}

\* the table t1 received its bucket before the table t2 during query iteration
WrittenBefore(t1, t2) ==
    \E q1 \in Writers(t1) : \A q2 \in Writers(t2) : QueryLess(q1, q2)

\* C13: every eval_incr call on one QuerySet, one database state and one
\* update returns the buckets in the same order, the order in which the tables
\* first received a bucket during query iteration.
C13_BucketOrderDeterministic ==
    Incremental =>
        /\ \A o \in eval_incr(queries, db, update) : BucketOrder(o) = BucketOrder(output)
        /\ \A i, j \in DOMAIN output.tables :
              i < j => WrittenBefore(output.tables[i].table_id, output.tables[j].table_id)

\* C16: QuerySet::eval returns only Insert ops, and the (table_id, row_pk)
\* pairs it returns are the union, over the queries of the set, of the rows each
\* query returns, keyed by the query's source table and the row's primary key.
C16_EvalInsertsUnion ==
    (lastCall = "eval" /\ ~output.err) =>
        /\ \A i \in DOMAIN OutOps(output) : OutOps(output)[i].op.op_type = OpInsert
        /\ {OutKey(OutOps(output)[i]) : i \in DOMAIN OutOps(output)} = ExpectedView(queries, db)

\* a filtered scan and the semijoin share a row, the semijoin yields a row
\* the scan does not and yields a row once for each of its two matches
C16_Witness ==
    /\ lastCall = "eval" /\ queries = {ScanAv, SemiAB}
    /\ ResultKeys(ScanAv, db) \cap ResultKeys(SemiAB, db) # {}
    /\ ResultKeys(SemiAB, db) \ ResultKeys(ScanAv, db) # {}
    /\ Len(run_query(db, SemiAB.expr).data) > Cardinality(ResultKeys(SemiAB, db))
    /\ Len(OutOps(output)) = 2

(***************************************************************************)
(* Properties of the error paths (specification ErrSpec).                  *)
(***************************************************************************)
\* the error the evaluation of q raises in the last call, if it raises one
Raises(q) ==
    LET src == get_db_table(q.expr.source) IN
    IF lastCall = "eval"
    THEN IF src.some /\ run_query_fails(q.expr) THEN Some("query execution failed") ELSE None
    ELSE IF q.kind = "Scan"
         THEN IF ~src.some THEN Some("expression without physical source table")
              ELSE IF run_query_fails(q.expr) /\ UpdateOps(update, src.val.table_id) # <<>>
                   THEN Some("query execution failed") ELSE None
         ELSE IF ~src.some THEN Some("expression without physical source table")
              ELSE IF ~FindRhs(q.expr.query).some THEN Some("rhs table not found")
              ELSE IF run_query_fails(q.expr) /\ update # <<>>
                   THEN Some("query execution failed") ELSE None

Raising == {q \in queries : Raises(q).some}

\* the ops the queries that come before q in the iteration order return
OpsBefore(q) ==
    LET earlier == {q2 \in queries : QueryLess(q2, q)} IN
    IF earlier = {} THEN <<>>
    ELSE IF lastCall = "eval" THEN OutOps(CHOOSE o \in eval(earlier, db) : TRUE)
    ELSE OutOps(CHOOSE o \in eval_incr(earlier, db, update) : TRUE)

\* C17: when the evaluation of a query of the set raises an error, the eval
\* or eval_incr call returns that error, the first in iteration order, and no
\* DatabaseUpdate; when no query raises one the call returns a DatabaseUpdate.
\* (eval raises no error for a query without a physical source: it skips it.)
C17_ErrorShortCircuits ==
    lastCall \in {"eval", "eval_incr"} =>
        IF Raising = {} THEN ~output.err
        ELSE /\ output.err
             /\ "tables" \notin DOMAIN output
             /\ \E q \in Raising :
                   /\ \A q2 \in Raising \ {q} : QueryLess(q, q2)
                   /\ output.msg = Raises(q).val

\* a query that raises an error comes after a query that had produced ops,
\* and the call returns the error
C17_Witness ==
    /\ lastCall = "eval_incr" /\ output.err
    /\ \E q \in Raising : OpsBefore(q) # <<>>

(***************************************************************************)
\* C14: no two entries of the subscriber list have the same client id, and
\* add_subscriber with an id already present leaves the list unchanged.
C14_SubscribersUnique ==
    /\ [](\A i, j \in DOMAIN subscribers : subscribers[i].id = subscribers[j].id => i = j)
    /\ [][(/\ lastOp'.op = "add"
           /\ \E i \in DOMAIN subscribers : subscribers[i].id = lastOp'.sender.id)
              => subscribers' = subscribers]_vars

\* add_subscriber was called with a sender whose id the list of three entries
\* held for another connection
C14_Witness ==
    /\ lastOp.op = "add"
    /\ \A i \in DOMAIN subscribers : subscribers[i] # lastOp.sender
    /\ \E i \in DOMAIN subscribers : subscribers[i].id = lastOp.sender.id
    /\ Len(subscribers) = 3
    /\ subscribers[1].id > subscribers[2].id

(***************************************************************************)
(* Properties of QuerySet::get_all (specification CatalogSpec).            *)
(***************************************************************************)
\* the tables the caller may read: user tables that are public, and every
\* user table when the caller is the owner of the database
Readable ==
    {t \in DOMAIN catalog :
        /\ catalog[t].table_type = "User"
        /\ (catalog[t].table_access = "Public" \/ auth.caller = auth.owner)}

\* C15: get_all returns exactly one Scan query for each user table that is
\* public or that the caller owns, and no query for a system table or for a
\* private table when the caller is not the owner.
C15_GetAllReadable ==
    allResult.tag = "ok" =>
        /\ \A q \in allResult.queries :
              /\ q.kind = "Scan" /\ q.expr.query = <<>>
              /\ q.expr.source.tag = "DbTable"
              /\ q.expr.source.table_id \in Readable
        /\ \A t \in Readable :
              Cardinality({q \in allResult.queries : q.expr.source.table_id = t}) = 1

\* a caller who is not the owner, with a public user table, a private user
\* table and a public system table, is given the one query
C15_Witness ==
    /\ allResult.tag = "ok" /\ auth.caller # auth.owner
    /\ \E t1, t2, t3 \in DOMAIN catalog :
        /\ catalog[t1] = [table_type |-> "User", table_access |-> "Public"]
        /\ catalog[t2] = [table_type |-> "User", table_access |-> "Private"]
        /\ catalog[t3] = [table_type |-> "System", table_access |-> "Public"]
        /\ allResult.queries = {[kind |-> "Scan", expr |-> QueryExprNew(t1)]}

(***************************************************************************)
(* Properties of instantiate (specification InstSpec).                     *)
(***************************************************************************)
\* C18: instantiate invokes the preinits one at a time in the order of
\* func_names.preinits; the first preinit that traps ends instantiation with
\* InitializationError::RuntimeError naming that function, nothing is invoked
\* after it, and __setup__ is only invoked after every preinit has returned.
C18_PreinitsInOrder ==
    /\ \A i \in DOMAIN callLog :
          IF i <= Len(preinits) THEN callLog[i].func = preinits[i]
          ELSE i = Len(preinits) + 1 /\ callLog[i].func = SetupDunder
    /\ \A i \in DOMAIN callLog :
          (callLog[i].trapped /\ callLog[i].func # SetupDunder) =>
              /\ i = Len(callLog)
              /\ ipc = "done"
              /\ initResult = InitializationError("RuntimeError", callLog[i].func, "")
    /\ \A i \in DOMAIN callLog :
          callLog[i].func = SetupDunder =>
              /\ i = Len(preinits) + 1
              /\ \A j \in 1..(i - 1) : ~callLog[j].trapped

\* the second of three preinits, listed out of the order of their names,
\* trapped, and the module exports __setup__
C18_Witness ==
    /\ ipc = "done" /\ hasSetup
    /\ Len(preinits) = 3 /\ preinits[1] > preinits[2]
    /\ Len(callLog) = 2 /\ callLog[2].trapped
    /\ initResult = InitializationError("RuntimeError", preinits[2], "")

\* the entries of the log for __setup__
SetupCalls == {i \in DOMAIN callLog : callLog[i].func = SetupDunder}

\* C19: instantiate returns an instance only if instantiation, every preinit
\* and the optional __setup__ succeeded.  A __setup__ return of the invalid
\* handle is success, any other handle yields InitializationError::Setup with
\* the buffer's message ("unknown error" when the handle names no live
\* buffer), a __setup__ trap yields InitializationError::RuntimeError, and an
\* error is returned in place of the instance.
C19_InstanceOnlyOnSuccess ==
    /\ initResult.tag = "ok" =>
          /\ ipc = "done"
          /\ Len(callLog) = Len(preinits) + (IF hasSetup THEN 1 ELSE 0)
          /\ \A i \in DOMAIN callLog : ~callLog[i].trapped
          /\ \A i \in SetupCalls : callLog[i].ret = BufferIdxInvalid
    /\ \A i \in SetupCalls :
          /\ ipc = "done"
          /\ initResult =
                IF callLog[i].trapped THEN InitializationError("RuntimeError", SetupDunder, "")
                ELSE IF callLog[i].ret = BufferIdxInvalid THEN OkInstance
                ELSE IF callLog[i].live THEN InitializationError("Setup", SetupDunder, "setup failed")
                ELSE InitializationError("Setup", SetupDunder, "unknown error")
    /\ (initResult.tag = "err" /\ initResult.kind = "Instantiation") =>
          callLog = <<>> /\ ipc = "done"
    /\ ipc = "done" => initResult.tag \in {"ok", "err"}

\* __setup__ returned, after two preinits, a handle that names no live buffer
\* while another buffer is live
C19_Witness ==
    /\ ipc = "done" /\ hasSetup /\ Len(preinits) = 2
    /\ initResult = InitializationError("Setup", SetupDunder, "unknown error")
    /\ initBuffers # NoBuffers

(***************************************************************************)
(* Further properties of the metered executor (specification HostSpec).    *)
(***************************************************************************)
\* C20: the value the guest returns is interpreted so: the INVALID sentinel
\* gives success; the handle of a live buffer gives a reducer error with the
\* bytes of that buffer, and the host takes the buffer out of the environment;
\* a handle that names no live buffer gives the runtime error "invalid buffer
\* handle".
C20_ReturnValueInterpreted ==
    (Finished /\ returned.some) =>
        LET ret  == returned.val.ret
            bufs == returned.val.atReturn
        IN IF ret = BufferIdxInvalid
           THEN callResult.tag = "ok" /\ returned.val.atFinish = bufs
           ELSE IF ret \in DOMAIN bufs
           THEN /\ callResult = [tag |-> "reducer_err", msg |-> bufs[ret]]
                /\ ret \notin DOMAIN returned.val.atFinish
                /\ \A h \in (DOMAIN bufs) \ {ret} :
                      h \in DOMAIN returned.val.atFinish /\ returned.val.atFinish[h] = bufs[h]
           ELSE /\ callResult = Trap("invalid buffer handle")
                /\ returned.val.atFinish = bufs

\* the guest consumed its argument buffer and returned the handle of it
C20_Witness ==
    /\ Finished /\ returned.some
    /\ returned.val.ret = 2
    /\ DOMAIN returned.val.atReturn = {0, 1}
    /\ callResult = Trap("invalid buffer handle")

(***************************************************************************)
(* Properties of the describer (specification DescribeSpec).               *)
(***************************************************************************)
Described == pc = "idle" /\ callResult.tag \in {"described", "describe_err"}

\* C21: when extract_descriptions has returned, with the description or with
\* DescribeError::Signature, RuntimeError or BadBuffer, the environment holds
\* no buffer and no iterator: nothing the describer created is live in a
\* later call.
C21_DescriberStateCleared ==
    Described => (buffers = NoBuffers /\ iters = 0)

(***************************************************************************)
(* Properties of the iteration order of a QuerySet (specification Spec).   *)
(***************************************************************************)
\* C22: a QuerySet that eval or eval_incr has iterated visited its queries in
\* the order of their expressions: q1 before q2 exactly when q1.expr < q2.expr,
\* whatever the kinds of the two queries.
C22_OrderedByExpr ==
    lastCall \in {"eval", "eval_incr"} =>
        LET order == QueryOrder(queries)
        IN \A i, j \in DOMAIN order :
              (i < j) <=> ExprLess(order[i].expr, order[j].expr)

(***************************************************************************)
(* Properties of the incremental join (specification JoinSpec).            *)
(***************************************************************************)
\* the IncrementalJoin of the semijoin for the update of the last transaction
JoinPlan == IncrementalJoinNew(SemiAB.expr, update)

JoinEvaluated == Incremental /\ queries = {SemiAB} /\ JoinPlan.plan.some

OpKeys(ops, t) == {ops[i].row_pk : i \in {j \in DOMAIN ops : ops[j].op_type = t}}

\* C23: IncrementalJoin::eval returns one Delete op for every key of the
\* delete set that is not in the insert set, one Insert op for every key of
\* the insert set that is not in the delete set, nothing for the keys in both,
\* and all Delete ops before all Insert ops, so that no key occurs twice; the
\* result of eval_incr for the semijoin alone is such a sequence.
C23_JoinSymmetricDifference ==
    JoinEvaluated =>
        LET plan == JoinPlan.plan.val
            ins  == DOMAIN JoinInserts(db, plan)
            dels == DOMAIN JoinDeletes(db, plan)
            outs == IncrementalJoinEval(db, plan)
            sent == [i \in DOMAIN OutOps(output) |-> OutOps(output)[i].op]
        IN /\ \A ops \in outs :
                /\ OpKeys(ops, OpDelete) = dels \ ins
                /\ OpKeys(ops, OpInsert) = ins \ dels
                /\ Len(ops) = Cardinality(dels \ ins) + Cardinality(ins \ dels)
                /\ \A i, j \in DOMAIN ops :
                      (ops[i].op_type = OpInsert /\ ops[j].op_type = OpDelete) => j < i
           /\ sent \in {[i \in DOMAIN ops |-> OpIntoTableOp(ops[i])] : ops \in outs}

\* a row of A is replaced while a row of B matches both versions: the old row
\* is deleted and the new one inserted, in that order
C23_Witness ==
    /\ JoinEvaluated
    /\ Len(OutOps(output)) = 2
    /\ OutOps(output)[1].op.op_type = OpDelete
    /\ OutOps(output)[2].op.op_type = OpInsert
    /\ DOMAIN JoinInserts(db, JoinPlan.plan.val) \cap DOMAIN JoinDeletes(db, JoinPlan.plan.val) = {}

(***************************************************************************)
(* The steps of a reducer call (specification CallStateSpec).              *)
(***************************************************************************)
ReducerSteps ==
    <<"set_remaining_points", "insert_buffer", "insert_buffer", "insert_buffer",
      "start_reducer", "call", "finish_reducer", "get_remaining_points">>

\* C24: a call_reducer call sets the meter, installs the three argument
\* buffers, calls start_reducer, invokes the guest, calls finish_reducer and
\* reads the remaining points, in this order; finish_reducer runs exactly once
\* on every outcome, and no buffer or iterator of a call is live when the
\* next call starts.
C24_ReducerStepsInOrder ==
    /\ pc = "running" => steps = SubSeq(ReducerSteps, 1, 6)
    /\ Finished =>
          /\ steps = ReducerSteps
          /\ Cardinality({i \in DOMAIN steps : steps[i] = "finish_reducer"}) = 1
    /\ pc = "idle" => (buffers = NoBuffers /\ iters = 0)

\* a second call ended in the trap of a returned handle that named no buffer,
\* while buffers of the call were live
C24_Witness ==
    /\ Finished /\ calls = 2
    /\ callResult = Trap("invalid buffer handle")
    /\ returned.some /\ returned.val.atFinish # NoBuffers
    /\ steps = ReducerSteps

(***************************************************************************)
(* Properties of IncrementalJoin::new (specification JoinNewSpec).         *)
(***************************************************************************)
\* the ops of the updates on table t, in the order of the updates
OpsOn(updates, t) ==
    Concat([i \in DOMAIN updates |-> IF updates[i].table_id = t THEN updates[i].ops ELSE <<>>])

\* C25: IncrementalJoin::new puts every op of an update on the LHS table in
\* the LHS bucket, every op of an update on the RHS table in the RHS bucket
\* (in the LHS bucket only when the table is both), the ops on other tables in
\* neither, and returns None exactly when both buckets are empty.
C25_UpdatesPartitioned ==
    (jresult.tag = "returned" /\ ~jresult.val.err) =>
        LET lhsT == jexpr.source.table_id
            rhsT == FindRhs(jexpr.query).val.table_id
            lhs  == OpsOn(jupdates, lhsT)
            rhs  == IF rhsT = lhsT THEN <<>> ELSE OpsOn(jupdates, rhsT)
            plan == jresult.val.plan
        IN IF lhs = <<>> /\ rhs = <<>> THEN plan = None
           ELSE /\ plan.some
                /\ plan.val.lhs = [table_id |-> lhsT, ops |-> lhs]
                /\ plan.val.rhs = [table_id |-> rhsT, ops |-> rhs]

\* two updates of the one table of a self-join: all ops are in the LHS bucket
C25_Witness ==
    /\ jresult.tag = "returned" /\ jexpr = SemiAAExpr
    /\ Len(jupdates) = 2
    /\ \A i \in DOMAIN jupdates : jupdates[i].table_id = "A" /\ Len(jupdates[i].ops) = 2
    /\ jresult.val.plan.some
    /\ Len(jresult.val.plan.val.lhs.ops) = 4
    /\ jresult.val.plan.val.rhs.ops = <<>>

(***************************************************************************)
(* Further properties of the error paths (specification ErrSpec).          *)
(***************************************************************************)
\* the source of the query is not a physical table, or the query is a Semijoin
\* without an IndexJoin whose probe side is a physical table
Unphysical(q) ==
    \/ q.expr.source.tag # "DbTable"
    \/ /\ q.kind = "Semijoin"
       /\ ~\E i \in DOMAIN q.expr.query :
              /\ q.expr.query[i].op = "IndexJoin"
              /\ q.expr.query[i].probe_side.source.tag = "DbTable"

\* C26: eval_incr on a QuerySet that holds a query whose source is not a
\* physical table, or a Semijoin without an IndexJoin on a physical probe side,
\* returns an error and no update, whatever tables the update touches.
C26_UnphysicalQueryFails ==
    (lastCall = "eval_incr" /\ \E q \in queries : Unphysical(q)) =>
        (output.err /\ "tables" \notin DOMAIN output)

\* an empty transaction on a set with a semijoin on a virtual table
C26_Witness ==
    /\ lastCall = "eval_incr" /\ update = <<>>
    /\ queries \cap {SemiMemLhs, SemiMemRhs} # {}
    /\ ScanMem \notin queries
    /\ output.err

EvalEntries(d) ==
    UNION {LET ops == OutOps(o)
           IN {[table_id |-> ops[j].table_id, row |-> ops[j].op.row,
                row_pk |-> ops[j].op.row_pk] : j \in DOMAIN ops} : o \in eval(queries, d)}

Held(subs) == {subs[i] : i \in DOMAIN subs}

\* C29: remove_subscriber returns the subscriber with the id and leaves the
\* others, one entry fewer; with no such subscriber it returns None and leaves
\* the list as it was; add_subscriber and remove_subscriber leave the queries.
C29_RemoveExactlyOne ==
    /\ [][lastOp'.op = "remove" =>
             IF \E i \in DOMAIN subscribers : subscribers[i].id = lastOp'.client_id
             THEN /\ lastOp'.removed.some
                  /\ lastOp'.removed.val \in Held(subscribers)
                  /\ lastOp'.removed.val.id = lastOp'.client_id
                  /\ Held(subscribers') = Held(subscribers) \ {lastOp'.removed.val}
                  /\ Len(subscribers') = Len(subscribers) - 1
             ELSE /\ lastOp'.removed = None
                  /\ subscribers' = subscribers]_vars
    /\ [][lastOp'.op \in {"add", "remove"} => queries' = queries]_vars

\* remove_subscriber took a subscriber out of a list of three and returned it
C29_Witness ==
    /\ lastOp.op = "remove"
    /\ lastOp.removed.some
    /\ lastOp.removed.val.id = lastOp.client_id
    /\ Len(subscribers) = 2
    /\ \A i \in DOMAIN subscribers : subscribers[i].id # lastOp.client_id

====
